---- MODULE Spec2Model ----
(***************************************************************************)
(* Model of app.py: the sweep / nearest-neighbour route builder            *)
(* solve_fast_vrp, the per-vehicle feasibility analysis of the results     *)
(* panel, and the Streamlit session state that carries routes from one     *)
(* run of the script to the next.                                          *)
(*                                                                         *)
(* A stop is a row of the data frame.  Python keeps the rows as list       *)
(* objects [lat, lon, Location_Name]; the model names a row by its         *)
(* position in the frame (0 = depot) and reads its value as df[i], so      *)
(* that two rows with equal values stay two stops.                         *)
(***************************************************************************)
EXTENDS Integers, Sequences, FiniteSets, Bags, TLC

(* ---------------- bounds of the explored inputs ---------------- *)
MaxCustomers == 2
MaxVehicles == 3
MaxLat == 1
MaxLon == 1

(* Location_Name takes no part in the sort key or in the distance, only in *)
(* list equality; one name is explored, so that two rows compare equal     *)
(* exactly when their coordinates are equal.                               *)
Names == {"A"}

Points == [lat : 0..MaxLat, lon : 0..MaxLon, name : Names]

VARIABLES
    df,              \* the cleaned data frame: row index -> [lat, lon, name]
    num_vehicles,    \* fleet size slider
    customers,       \* points[1:], sorted by longitude (row indices)
    chunk_size,
    i,               \* loop variable of "for i in range(num_vehicles)"
    route,           \* tour under construction (row indices)
    unvisited,
    current_loc,
    route_dist,      \* metres
    vehicle_routes,
    vehicle_stats,
    pc,
    \* the results panel (lines 155-209)
    stats,             \* the stats list the panel analyses
    max_time,          \* shift duration slider, hours
    service_time_min,  \* time per stop, minutes
    analysis_data,     \* rows built by the loop
    alert,             \* which of st.error / st.warning / st.success was shown
    a_pc,
    \* the Streamlit script across reruns
    uploaded_file,
    fleet_slider,
    ss_last_file,      \* st.session_state.last_file, or Absent
    ss_routes,
    ss_results,
    ss_data            \* the file st.session_state.data was read from, or Absent

vrpVars == <<df, num_vehicles, customers, chunk_size, i, route, unvisited,
             current_loc, route_dist, vehicle_routes, vehicle_stats, pc>>

anVars == <<stats, max_time, service_time_min, analysis_data, alert, a_pc>>

ssVars == <<uploaded_file, fleet_slider, ss_last_file, ss_routes, ss_results, ss_data>>

vars == <<vrpVars, anVars, ssVars>>

(* ---------------- get_dist_km ---------------- *)
(* Haversine distance in metres between whole-degree coordinates, as the   *)
(* code's floating point formula evaluates it (6371 km radius), rounded    *)
(* to the metre.  Row <<a, b>> lists the distance between latitudes a <= b *)
(* for a longitude difference of 0, 1, 2, 3, 4 degrees.  On this grid the  *)
(* rounded values order and tie exactly as the floating point values do.   *)
HaversineM ==
    <<0, 0>> :> <<0, 111195, 222390, 333585, 444780>> @@
    <<0, 1>> :> <<111195, 157249, 248629, 351613, 458447>> @@
    <<0, 2>> :> <<222390, 248629, 314475, 400863, 497198>> @@
    <<1, 1>> :> <<0, 111178, 222356, 333534, 444712>> @@
    <<1, 2>> :> <<111195, 157225, 248569, 351517, 458315>> @@
    <<2, 2>> :> <<0, 111127, 222254, 333382, 444509>>

Abs(x) == IF x < 0 THEN -x ELSE x

(* For the antipodal pair (8, 0), (-8, 180) the floating point value of a  *)
(* comes out above 1 and math.sqrt(1 - a) raises ValueError, in either     *)
(* argument order.                                                         *)
RaisesValueError(p1, p2) ==
    /\ Abs(p1.lat) = 8
    /\ p2.lat = -p1.lat
    /\ Abs(p2.lon - p1.lon) = 180

get_dist_km(p1, p2) ==
    LET lo == IF p1.lat <= p2.lat THEN p1.lat ELSE p2.lat
        hi == IF p1.lat <= p2.lat THEN p2.lat ELSE p1.lat
    IN  IF RaisesValueError(p1, p2) THEN "ValueError"
        ELSE IF p1.lat = p2.lat /\ p1.lon = p2.lon THEN 0
        ELSE HaversineM[<<lo, hi>>][Abs(p2.lon - p1.lon) + 1]

(* ---------------- list helpers ---------------- *)
(* list.sort(key=lambda x: x[1]): stable, ascending by longitude.          *)
RECURSIVE InsertByLon(_, _, _)
InsertByLon(d, s, x) ==
    IF s = <<>> THEN <<x>>
    ELSE IF d[x].lon < d[Head(s)].lon THEN <<x>> \o s
    ELSE <<Head(s)>> \o InsertByLon(d, Tail(s), x)

(* variant: the sort is left out *)
SortByLonKeepOrder(d, s) == s

RECURSIVE SortByLon(_, _)
SortByLon(d, s) ==
    IF s = <<>> THEN <<>>
    ELSE InsertByLon(d, SortByLon(d, SubSeq(s, 1, Len(s) - 1)), s[Len(s)])

(* variant: integer division in place of the ceiling *)
ChunkSizeFloor(n, v) == n \div v

(* math.ceil(len(customers) / num_vehicles) *)
ChunkSize(n, v) == IF n % v = 0 THEN n \div v ELSE (n \div v) + 1

(* customers[start_idx:end_idx], Python slice (clipped to the list) *)
Slice(s, start_idx, end_idx) ==
    SubSeq(s, start_idx + 1, IF end_idx < Len(s) THEN end_idx ELSE Len(s))

Chunk(cust, cs, k) == Slice(cust, k * cs, k * cs + cs)

(* variant: a later element also replaces the best so far on an equal key *)
RECURSIVE MinScanLast(_, _, _, _, _)
MinScanLast(d, cur, unv, k, best) ==
    IF k > Len(unv) THEN best
    ELSE IF get_dist_km(d[cur], d[unv[k]]) <= get_dist_km(d[cur], d[unv[best]])
         THEN MinScanLast(d, cur, unv, k + 1, k)
         ELSE MinScanLast(d, cur, unv, k + 1, best)

(* min(unvisited, key=...): left-to-right scan, a later element replaces   *)
(* the best so far only when its key is strictly smaller.                  *)
RECURSIVE MinScan(_, _, _, _, _)
MinScan(d, cur, unv, k, best) ==
    IF k > Len(unv) THEN best
    ELSE IF get_dist_km(d[cur], d[unv[k]]) < get_dist_km(d[cur], d[unv[best]])
         THEN MinScan(d, cur, unv, k + 1, k)
         ELSE MinScan(d, cur, unv, k + 1, best)

NearestPos(d, cur, unv) == MinScan(d, cur, unv, 2, 1)

Nearest(d, cur, unv) == unv[NearestPos(d, cur, unv)]

(* list.remove(x): drops the first element that is x or compares equal.    *)
RECURSIVE ListRemove(_, _, _)
ListRemove(d, unv, x) ==
    IF unv = <<>> THEN <<>>
    ELSE IF Head(unv) = x \/ d[Head(unv)] = d[x] THEN Tail(unv)
    ELSE <<Head(unv)>> \o ListRemove(d, Tail(unv), x)

(* ---------------- inputs ---------------- *)
Frame(n) == [0..n -> Points]

(* Scenario: nine customers, one on each point of the 3 x 3 grid, in        *)
(* rotated row orders, with the depot on any point of the grid.            *)
GridPoint(k) == [lat |-> k \div 3, lon |-> k % 3, name |-> "A"]

ScenarioFrame(r, dep) ==
    [k \in 0..9 |-> IF k = 0 THEN GridPoint(dep) ELSE GridPoint((k - 1 + r) % 9)]

ScenarioFrames == {ScenarioFrame(r, dep) : r \in 0..8, dep \in 0..8}

(* Stop lists made of the two antipodal points (8, 0) and (-8, 180).       *)
AntipodalPoints == {[lat |-> 8, lon |-> 0, name |-> "A"],
                    [lat |-> -8, lon |-> 180, name |-> "A"]}

AntipodalFrames == UNION {[0..n -> AntipodalPoints] : n \in 1..2}

(* default values of the sidebar widgets *)
FleetDefault == 4
ShiftDefault == 4
ServiceDefault == 10

NoFile == "NoFile"

Absent == "Absent"

(* the stop lists and fleet sizes the call is explored with *)
Inputs ==
    {<<d, v>> : d \in UNION {Frame(n) : n \in 0..MaxCustomers}, v \in 1..MaxVehicles}
        \cup {<<d, v>> : d \in ScenarioFrames, v \in {2, 3, 4}}
        \cup {<<d, v>> : d \in AntipodalFrames, v \in {1, 2}}

Init ==
    /\ df = <<>>
    /\ num_vehicles = 1
    /\ customers = <<>>
    /\ chunk_size = 0
    /\ i = 0
    /\ route = <<>>
    /\ unvisited = <<>>
    /\ current_loc = 0
    /\ route_dist = 0
    /\ vehicle_routes = <<>>
    /\ vehicle_stats = <<>>
    /\ pc = "idle"
    /\ stats = <<>>
    /\ max_time = ShiftDefault
    /\ service_time_min = ServiceDefault
    /\ analysis_data = <<>>
    /\ alert = "none"
    /\ a_pc = "idle"
    /\ uploaded_file = NoFile
    /\ fleet_slider = FleetDefault
    /\ ss_last_file = Absent
    /\ ss_routes = <<>>
    /\ ss_results = <<>>
    /\ ss_data = Absent

NumRows == Cardinality(DOMAIN df)

(* ---------------- solve_fast_vrp, step by step ---------------- *)
(* the call solve_fast_vrp(df, num_vehicles) and lines 32-41: split off    *)
(* the depot, sort the customers by longitude, size the chunks             *)
Setup ==
    /\ pc = "idle"
    /\ \E inp \in Inputs :
           LET d == inp[1]
               v == inp[2]
               n == Cardinality(DOMAIN d) - 1
           IN  /\ df' = d
               /\ num_vehicles' = v
               /\ customers' = SortByLon(d, [k \in 1..n |-> k])
               /\ chunk_size' = ChunkSize(n, v)
    /\ vehicle_routes' = <<>>
    /\ vehicle_stats' = <<>>
    /\ i' = 0
    /\ pc' = "for"
    /\ UNCHANGED <<route, unvisited, current_loc, route_dist>>
    /\ UNCHANGED <<anVars, ssVars>>

(* variant: an empty chunk is not skipped and yields a depot-to-depot route *)
RecordEmptyChunk ==
    /\ pc = "for"
    /\ i < num_vehicles
    /\ Chunk(customers, chunk_size, i) = <<>>
    /\ i' = i + 1
    /\ vehicle_routes' = Append(vehicle_routes, <<0, 0>>)
    /\ vehicle_stats' = Append(vehicle_stats, [id |-> i + 1, stops |-> 0, dist_km |-> 0])
    /\ UNCHANGED <<df, num_vehicles, customers, chunk_size, route, unvisited,
                   current_loc, route_dist, pc>>
    /\ UNCHANGED <<anVars, ssVars>>

(* lines 43-49: an empty chunk is skipped *)
SkipEmptyChunk ==
    /\ pc = "for"
    /\ i < num_vehicles
    /\ Chunk(customers, chunk_size, i) = <<>>
    /\ i' = i + 1
    /\ UNCHANGED <<df, num_vehicles, customers, chunk_size, route, unvisited,
                   current_loc, route_dist, vehicle_routes, vehicle_stats, pc>>
    /\ UNCHANGED <<anVars, ssVars>>

(* lines 43-55: a non-empty chunk starts a tour at the depot *)
BeginRoute ==
    /\ pc = "for"
    /\ i < num_vehicles
    /\ Chunk(customers, chunk_size, i) # <<>>
    /\ route' = <<0>>
    /\ unvisited' = Chunk(customers, chunk_size, i)
    /\ current_loc' = 0
    /\ route_dist' = 0
    /\ pc' = "while"
    /\ UNCHANGED <<df, num_vehicles, customers, chunk_size, i,
                   vehicle_routes, vehicle_stats>>
    /\ UNCHANGED <<anVars, ssVars>>

(* line 59: min() evaluates the key of every unvisited stop; a ValueError  *)
(* from get_dist_km leaves solve_fast_vrp                                  *)
KeyRaises(d, cur, unv) ==
    \E k \in 1..Len(unv) : RaisesValueError(d[cur], d[unv[k]])

NearestRaises ==
    /\ pc = "while"
    /\ unvisited # <<>>
    /\ KeyRaises(df, current_loc, unvisited)
    /\ pc' = "raised"
    /\ UNCHANGED <<df, num_vehicles, customers, chunk_size, i, route, unvisited,
                   current_loc, route_dist, vehicle_routes, vehicle_stats>>
    /\ UNCHANGED <<anVars, ssVars>>

(* lines 57-66: one iteration of the nearest-neighbour loop *)
NearestStep ==
    /\ pc = "while"
    /\ unvisited # <<>>
    /\ ~KeyRaises(df, current_loc, unvisited)
    /\ LET nearest == Nearest(df, current_loc, unvisited)
           dist_leg == get_dist_km(df[current_loc], df[nearest])
       IN  /\ route' = Append(route, nearest)
           /\ route_dist' = route_dist + dist_leg
           /\ unvisited' = ListRemove(df, unvisited, nearest)
           /\ current_loc' = nearest
    /\ UNCHANGED <<df, num_vehicles, customers, chunk_size, i,
                   vehicle_routes, vehicle_stats, pc>>
    /\ UNCHANGED <<anVars, ssVars>>

(* variant: the route is recorded without the closing depot *)
CloseRouteOpen ==
    /\ pc = "while"
    /\ unvisited = <<>>
    /\ vehicle_routes' = Append(vehicle_routes, route)
    /\ vehicle_stats' = Append(vehicle_stats,
                               [id |-> i + 1, stops |-> Len(route) - 1,
                                dist_km |-> route_dist])
    /\ i' = i + 1
    /\ pc' = "for"
    /\ UNCHANGED <<df, num_vehicles, customers, chunk_size, route, unvisited,
                   current_loc, route_dist>>
    /\ UNCHANGED <<anVars, ssVars>>

(* lines 68-78: return leg, record the route and its stats.  The distance  *)
(* from the depot to current_loc was evaluated without error when          *)
(* current_loc was chosen or passed over, so the return leg evaluates too. *)
CloseRoute ==
    /\ pc = "while"
    /\ unvisited = <<>>
    /\ LET return_dist == get_dist_km(df[current_loc], df[0])
           closed == Append(route, 0)
       IN  /\ route' = closed
           /\ route_dist' = route_dist + return_dist
           /\ vehicle_routes' = Append(vehicle_routes, closed)
           /\ vehicle_stats' = Append(vehicle_stats,
                                      [id |-> i + 1,
                                       stops |-> Len(closed) - 2,
                                       dist_km |-> route_dist + return_dist])
    /\ i' = i + 1
    /\ pc' = "for"
    /\ UNCHANGED <<df, num_vehicles, customers, chunk_size, unvisited, current_loc>>
    /\ UNCHANGED <<anVars, ssVars>>

(* line 80 *)
Return ==
    /\ pc = "for"
    /\ i >= num_vehicles
    /\ pc' = "done"
    /\ UNCHANGED <<df, num_vehicles, customers, chunk_size, i, route, unvisited,
                   current_loc, route_dist, vehicle_routes, vehicle_stats>>
    /\ UNCHANGED <<anVars, ssVars>>

Next ==
    \/ Setup
    \/ SkipEmptyChunk
    \/ BeginRoute
    \/ NearestRaises
    \/ NearestStep
    \/ CloseRoute
    \/ Return

Spec == Init /\ [][Next]_vars

(* The script runs the call to completion: no step waits on anything. *)
FairSpec == Init /\ [][Next]_vars /\ WF_vars(Next)

(* ---------------- solve_fast_vrp as one call ---------------- *)
(* lines 57-66 run to completion: the tour and its length after the loop *)
RECURSIVE Tour(_, _, _, _, _)
Tour(d, unv, cur, rt, dist) ==
    IF unv = <<>> THEN [route |-> rt, last |-> cur, dist |-> dist, raised |-> FALSE]
    ELSE IF KeyRaises(d, cur, unv)
    THEN [route |-> rt, last |-> cur, dist |-> dist, raised |-> TRUE]
    ELSE LET nearest == Nearest(d, cur, unv)
         IN  Tour(d, ListRemove(d, unv, nearest), nearest, Append(rt, nearest),
                  dist + get_dist_km(d[cur], d[nearest]))

(* lines 43-78 from vehicle k on *)
RECURSIVE Vehicles(_, _, _, _, _, _, _)
Vehicles(d, v, cust, cs, k, routes, sts) ==
    IF k >= v THEN <<routes, sts>>
    ELSE IF Chunk(cust, cs, k) = <<>> THEN Vehicles(d, v, cust, cs, k + 1, routes, sts)
    ELSE LET t == Tour(d, Chunk(cust, cs, k), 0, <<0>>, 0)
             closed == Append(t.route, 0)
             total == t.dist + get_dist_km(d[t.last], d[0])
         IN  IF t.raised THEN "ValueError"
             ELSE Vehicles(d, v, cust, cs, k + 1, Append(routes, closed),
                           Append(sts, [id |-> k + 1, stops |-> Len(closed) - 2,
                                        dist_km |-> total]))

solve_fast_vrp(d, v) ==
    LET n == Cardinality(DOMAIN d) - 1
    IN  Vehicles(d, v, SortByLon(d, [k \in 1..n |-> k]), ChunkSize(n, v), 0, <<>>, <<>>)

(* ====================== the results panel ====================== *)
MaxRoutes == 2
MaxStops == 3
MaxShiftExplored == 2
MaxDistSteps == 5
ServiceTimes == {0, 10, 15, 30}

(* variant: the 30 km/h boundary falls on the upper class *)
StatusInclusive(stops, dist, shift, service) ==
    LET stop_minutes == stops * service
        drive_minutes == 60 * shift - stop_minutes
    IN  IF drive_minutes <= 0 THEN "IMPOSSIBLE"
        ELSE IF dist * 60 > 60 * 1000 * drive_minutes THEN "HIGH RISK"
        ELSE IF dist * 60 >= 30 * 1000 * drive_minutes THEN "OPTIMAL"
        ELSE "EASY"

(* dist_km is carried in metres; req_speed = dist / drive_time_available   *)
(* is compared with 60 and 30 km/h exactly, in minutes and metres.         *)
Status(stops, dist, shift, service) ==
    LET stop_minutes == stops * service
        drive_minutes == 60 * shift - stop_minutes
    IN  IF drive_minutes <= 0 THEN "IMPOSSIBLE"
        ELSE IF dist * 60 > 60 * 1000 * drive_minutes THEN "HIGH RISK"
        ELSE IF dist * 60 > 30 * 1000 * drive_minutes THEN "OPTIMAL"
        ELSE "EASY"

StatRows == [id : 1..MaxRoutes, stops : 1..MaxStops,
             dist_km : {k * 15000 : k \in 0..MaxDistSteps}]

(* stats lists as solve_fast_vrp builds them: the j-th entry has id j *)
StatsLists == {st \in UNION {[1..n -> StatRows] : n \in 0..MaxRoutes} :
                  \A j \in DOMAIN st : st[j].id = j}

(* line 155: the panel is entered with some stats and slider values; an    *)
(* empty stats list shows nothing                                          *)
StartAnalysis ==
    /\ a_pc = "idle"
    /\ stats' \in StatsLists
    /\ max_time' \in 1..MaxShiftExplored
    /\ service_time_min' \in ServiceTimes
    /\ analysis_data' = <<>>
    /\ alert' = "none"
    /\ a_pc' = IF stats' = <<>> THEN "done" ELSE "loop"
    /\ UNCHANGED <<vrpVars, ssVars>>

(* lines 159-194: one vehicle of the loop *)
AnalyseVehicle ==
    /\ a_pc = "loop"
    /\ Len(analysis_data) < Len(stats)
    /\ LET v == stats[Len(analysis_data) + 1]
       IN  analysis_data' = Append(analysis_data,
               [Vehicle |-> v.id, Stops |-> v.stops,
                Status |-> Status(v.stops, v.dist_km, max_time, service_time_min)])
    /\ UNCHANGED <<stats, max_time, service_time_min, alert, a_pc>>
    /\ UNCHANGED <<vrpVars, ssVars>>

(* variant: the HIGH RISK test comes first *)
WarningLogicRiskFirst ==
    /\ a_pc = "loop"
    /\ Len(analysis_data) = Len(stats)
    /\ alert' = IF \E j \in 1..Len(analysis_data) : analysis_data[j].Status = "HIGH RISK"
                THEN "warning"
                ELSE IF \E j \in 1..Len(analysis_data) : analysis_data[j].Status = "IMPOSSIBLE"
                THEN "error"
                ELSE "success"
    /\ a_pc' = "done"
    /\ UNCHANGED <<stats, max_time, service_time_min, analysis_data>>
    /\ UNCHANGED <<vrpVars, ssVars>>

(* lines 203-209 *)
WarningLogic ==
    /\ a_pc = "loop"
    /\ Len(analysis_data) = Len(stats)
    /\ alert' = IF \E j \in 1..Len(analysis_data) : analysis_data[j].Status = "IMPOSSIBLE"
                THEN "error"
                ELSE IF \E j \in 1..Len(analysis_data) : analysis_data[j].Status = "HIGH RISK"
                THEN "warning"
                ELSE "success"
    /\ a_pc' = "done"
    /\ UNCHANGED <<stats, max_time, service_time_min, analysis_data>>
    /\ UNCHANGED <<vrpVars, ssVars>>

AnalysisNext ==
    \/ StartAnalysis
    \/ AnalyseVehicle
    \/ WarningLogic

AnalysisSpec == Init /\ [][AnalysisNext]_vars

(* ====================== the script across reruns ====================== *)
Files == {"a.csv", "b.csv", "far.csv", "empty.csv"}

Pt(la, lo) == [lat |-> la, lon |-> lo, name |-> "A"]

(* the cleaned frame pd.read_csv yields for each file *)
FileData(f) ==
    IF f = "a.csv" THEN [k \in 0..3 |-> <<Pt(0, 1), Pt(0, 2), Pt(0, 0), Pt(1, 1)>>[k + 1]]
    ELSE IF f = "b.csv" THEN [k \in 0..2 |-> <<Pt(1, 0), Pt(1, 2), Pt(0, 0)>>[k + 1]]
    ELSE IF f = "far.csv" THEN [k \in 0..1 |-> <<Pt(8, 0), Pt(-8, 180)>>[k + 1]]
    ELSE <<>>

(* One run of the script, top to bottom, with the given widget values:     *)
(* lines 88-90, then lines 101-118.  points[0] of an empty frame raises,   *)
(* get_dist_km may raise, and the except clause then leaves the session    *)
(* state as it was.                                                        *)
RunScript(file, fleet, btn) ==
    LET first == file # NoFile /\ ss_last_file = Absent
        routes1 == IF first THEN <<>> ELSE ss_routes
        res == solve_fast_vrp(FileData(file), fleet)
        solvable == /\ file # NoFile
                    /\ btn
                    /\ DOMAIN FileData(file) # {}
                    /\ res # "ValueError"
    IN  /\ uploaded_file' = file
        /\ fleet_slider' = fleet
        /\ ss_last_file' = IF first THEN file ELSE ss_last_file
        /\ ss_routes' = IF solvable THEN res[1] ELSE routes1
        /\ ss_results' = IF solvable THEN res[2] ELSE ss_results
        /\ ss_data' = IF solvable THEN file ELSE ss_data

UploadFile ==
    /\ \E f \in Files : f # uploaded_file /\ RunScript(f, fleet_slider, FALSE)
    /\ UNCHANGED <<vrpVars, anVars>>

RemoveFile ==
    /\ uploaded_file # NoFile
    /\ RunScript(NoFile, fleet_slider, FALSE)
    /\ UNCHANGED <<vrpVars, anVars>>

MoveFleetSlider ==
    /\ \E v \in 1..MaxVehicles : v # fleet_slider /\ RunScript(uploaded_file, v, FALSE)
    /\ UNCHANGED <<vrpVars, anVars>>

ClickOptimize ==
    /\ RunScript(uploaded_file, fleet_slider, TRUE)
    /\ UNCHANGED <<vrpVars, anVars>>

SessionNext ==
    \/ UploadFile
    \/ RemoveFile
    \/ MoveFleetSlider
    \/ ClickOptimize

SessionSpec == Init /\ [][SessionNext]_vars

(* lines 121-124: the results view is drawn whenever data is stored *)
ResultsShown == ss_data # Absent

(* ====================== properties of solve_fast_vrp ====================== *)
Interior(r) == SubSeq(r, 2, Len(r) - 1)

Elems(s) == {s[k] : k \in 1..Len(s)}

CustomerIds == 1..(NumRows - 1)

(* positions <<route, place>> at which stop c is an interior stop *)
InteriorPositions(c) ==
    {jk \in UNION {{<<j, k>> : k \in 2..(Len(vehicle_routes[j]) - 1)} :
                   j \in 1..Len(vehicle_routes)} :
        vehicle_routes[jk[1]][jk[2]] = c}

(* C1: when solve_fast_vrp has returned, every customer row 1..N-1 is an   *)
(* interior stop of the returned routes exactly once, and nothing but      *)
(* customer rows is an interior stop.                                      *)
C1_Coverage ==
    pc = "done" =>
        /\ \A c \in CustomerIds : Cardinality(InteriorPositions(c)) = 1
        /\ \A j \in 1..Len(vehicle_routes) :
               Elems(Interior(vehicle_routes[j])) \subseteq CustomerIds

C1_Witness ==
    /\ pc = "done"
    /\ Len(vehicle_routes) >= 2
    /\ NumRows - 1 >= 3

(* the chunk length the sweep is specified to use: the least L with        *)
(* L * fleetSize >= number of customers                                    *)
CeilShare ==
    CHOOSE L \in 0..NumRows :
        /\ L * num_vehicles >= NumRows - 1
        /\ \A M \in 0..NumRows : M * num_vehicles >= NumRows - 1 => L <= M

(* the places of the longitude-ordered list that belong to vehicle v *)
ShareOf(v) ==
    {k \in 1..(NumRows - 1) : v * CeilShare < k /\ k <= (v + 1) * CeilShare}

(* C4: the customers are ordered by longitude, vehicle v (0-based, fleet   *)
(* order) gets the v-th contiguous slice of ceil((N-1)/fleetSize) places   *)
(* of that order, and the interior stops of its route are exactly the      *)
(* stops of that slice; nine customers and three vehicles give three       *)
(* routes of three stops.                                                  *)
C4_SweepPartition ==
    pc = "done" =>
        /\ Len(customers) = NumRows - 1
        /\ Elems(customers) = CustomerIds
        /\ \A a, b \in 1..Len(customers) :
               a < b => df[customers[a]].lon <= df[customers[b]].lon
        /\ \A v \in 0..(num_vehicles - 1) :
               IF ShareOf(v) = {}
               THEN \A j \in 1..Len(vehicle_stats) : vehicle_stats[j].id # v + 1
               ELSE \E j \in 1..Len(vehicle_stats) :
                        /\ vehicle_stats[j].id = v + 1
                        /\ Len(Interior(vehicle_routes[j])) = Cardinality(ShareOf(v))
                        /\ Elems(Interior(vehicle_routes[j]))
                               = {customers[k] : k \in ShareOf(v)}
        /\ (NumRows - 1 = 9 /\ num_vehicles = 3) =>
               /\ Len(vehicle_routes) = 3
               /\ \A j \in 1..3 : Len(Interior(vehicle_routes[j])) = 3

C4_Witness ==
    /\ pc = "done"
    /\ NumRows - 1 = 9
    /\ num_vehicles = 3
    /\ \E a \in 1..8 : customers[a] > customers[a + 1]

(* the step just taken appended n, chosen from the old unvisited list *)
Tail2(r) == r[Len(r) - 1]

(* C5 as stated: each nearest-neighbour step appends an unvisited stop of  *)
(* the chunk at minimum distance from the tour tail, and among stops at    *)
(* that minimum distance the one with the lowest stop index.               *)
C5_LowestIndexTie ==
    [][NearestStep =>
          LET n == route'[Len(route')]
          IN  /\ n \in Elems(unvisited)
              /\ \A u \in Elems(unvisited) :
                     /\ get_dist_km(df[current_loc], df[n])
                            <= get_dist_km(df[current_loc], df[u])
                     /\ get_dist_km(df[current_loc], df[u])
                            = get_dist_km(df[current_loc], df[n]) => n <= u]_vars

(* C5 amended: each nearest-neighbour step appends an unvisited stop of    *)
(* the chunk at minimum distance from the tour tail, and among stops at    *)
(* that minimum distance the first in longitude order (lowest longitude,   *)
(* then lowest stop index).                                                *)
C5_LongitudeOrderTie ==
    [][NearestStep =>
          LET n == route'[Len(route')]
          IN  /\ n \in Elems(unvisited)
              /\ Len(route') = Len(route) + 1
              /\ current_loc = route[Len(route)]
              /\ \A u \in Elems(unvisited) :
                     /\ get_dist_km(df[current_loc], df[n])
                            <= get_dist_km(df[current_loc], df[u])
                     /\ get_dist_km(df[current_loc], df[u])
                            = get_dist_km(df[current_loc], df[n]) =>
                            \/ df[n].lon < df[u].lon
                            \/ df[n].lon = df[u].lon /\ n <= u]_vars

(* a tie was decided against the lower stop index *)
C5_Witness ==
    /\ pc = "while"
    /\ Len(route) >= 2
    /\ \E u \in Elems(unvisited) :
           /\ u < route[Len(route)]
           /\ get_dist_km(df[Tail2(route)], df[u])
                  = get_dist_km(df[Tail2(route)], df[route[Len(route)]])

(* each iteration of the nearest-neighbour loop removes exactly one stop    *)
(* from the unvisited list                                                 *)
LoopRemovesOne ==
    [][NearestStep => Len(unvisited') = Len(unvisited) - 1]_vars

(* C6: the call always returns its list of routes and never ends in an     *)
(* error, and every iteration of the nearest-neighbour loop removes        *)
(* exactly one stop from the unvisited list.                               *)
C6_Terminates ==
    /\ <>(pc = "done")
    /\ [](pc # "raised")
    /\ [][NearestStep => Len(unvisited') = Len(unvisited) - 1]_vars

(* C7: every recorded route starts at the depot (row 0), ends at the       *)
(* depot, and has the depot nowhere in between.                            *)
C7_RouteClosure ==
    \A j \in 1..Len(vehicle_routes) :
        LET r == vehicle_routes[j]
        IN  /\ Len(r) >= 2
            /\ r[1] = 0
            /\ r[Len(r)] = 0
            /\ \A k \in 2..(Len(r) - 1) : r[k] # 0

C7_Witness ==
    /\ pc = "done"
    /\ Len(vehicle_routes) >= 2
    /\ \E c \in CustomerIds : df[c] = df[0]

(* C9: the result has one route per vehicle whose slice is not empty, no   *)
(* route without interior stops, and the j-th route carries vehicle id j.  *)
C9_VehicleIds ==
    pc = "done" =>
        /\ Len(vehicle_routes) = Cardinality({v \in 0..(num_vehicles - 1) : ShareOf(v) # {}})
        /\ \A j \in 1..Len(vehicle_routes) :
               /\ Len(Interior(vehicle_routes[j])) >= 1
               /\ vehicle_stats[j].id = j
               /\ vehicle_stats[j].stops = Len(Interior(vehicle_routes[j]))

C9_Witness ==
    /\ pc = "done"
    /\ Len(vehicle_routes) >= 2
    /\ Len(vehicle_routes) < num_vehicles

(* the step-by-step call and the one-call form agree on what is returned *)
StepsAgreeWithCall ==
    /\ pc = "done" => solve_fast_vrp(df, num_vehicles) = <<vehicle_routes, vehicle_stats>>
    /\ pc = "raised" => solve_fast_vrp(df, num_vehicles) = "ValueError"

(* ====================== properties of the results panel ====================== *)
(* minutes left for driving once the stops are served *)
DriveMinutes(v) == 60 * max_time - v.stops * service_time_min

(* requiredSpeed = distance / driveTimeAvailable against a km/h threshold *)
SpeedOver(v, kmh) == v.dist_km * 60 > kmh * 1000 * DriveMinutes(v)

SpeedIs(v, kmh) == v.dist_km * 60 = kmh * 1000 * DriveMinutes(v)

(* C2: every analysed route is IMPOSSIBLE exactly when no driving time is  *)
(* left; otherwise HIGH RISK exactly when the required speed is above 60,  *)
(* OPTIMAL when it is above 30 and at most 60, EASY when it is at most 30; *)
(* a required speed of exactly 30 is EASY and of exactly 60 is OPTIMAL.    *)
C2_Classification ==
    \A j \in 1..Len(analysis_data) :
        LET v == stats[j]
            st == analysis_data[j].Status
        IN  /\ st \in {"IMPOSSIBLE", "HIGH RISK", "OPTIMAL", "EASY"}
            /\ st = "IMPOSSIBLE" <=> DriveMinutes(v) <= 0
            /\ DriveMinutes(v) > 0 =>
                   /\ st = "HIGH RISK" <=> SpeedOver(v, 60)
                   /\ st = "OPTIMAL" <=> (SpeedOver(v, 30) /\ ~SpeedOver(v, 60))
                   /\ st = "EASY" <=> ~SpeedOver(v, 30)
                   /\ SpeedIs(v, 30) => st = "EASY"
                   /\ SpeedIs(v, 60) => st = "OPTIMAL"

C2_Witness ==
    /\ a_pc = "done"
    /\ \E j, k \in 1..Len(analysis_data) :
           /\ DriveMinutes(stats[j]) > 0 /\ SpeedIs(stats[j], 30)
           /\ DriveMinutes(stats[k]) > 0 /\ SpeedIs(stats[k], 60)

StatusesShown == {analysis_data[j].Status : j \in 1..Len(analysis_data)}

(* C8: once the panel has analysed its routes, the alert is the error      *)
(* (IMPOSSIBLE) if some route is IMPOSSIBLE, else the warning (HIGH RISK)  *)
(* if some route is HIGH RISK, else the success message (feasible).        *)
C8_Aggregate ==
    (a_pc = "done" /\ stats # <<>>) =>
        /\ Len(analysis_data) = Len(stats)
        /\ "IMPOSSIBLE" \in StatusesShown => alert = "error"
        /\ ("IMPOSSIBLE" \notin StatusesShown /\ "HIGH RISK" \in StatusesShown)
               => alert = "warning"
        /\ ("IMPOSSIBLE" \notin StatusesShown /\ "HIGH RISK" \notin StatusesShown)
               => alert = "success"

C8_Witness ==
    /\ a_pc = "done"
    /\ "IMPOSSIBLE" \in StatusesShown
    /\ "HIGH RISK" \in StatusesShown
    /\ alert = "error"

(* ====================== properties of the session ====================== *)
(* C10: whenever the uploaded file is not the file the stored data and     *)
(* routes were computed from, session_state.routes is empty.               *)
C10_ResetOnNewFile ==
    (uploaded_file \in Files /\ ss_data # Absent /\ ss_data # uploaded_file)
        => ss_routes = <<>>

TypeOK ==
    /\ pc \in {"idle", "for", "while", "done", "raised"}
    /\ i \in 0..num_vehicles
    /\ Len(vehicle_routes) = Len(vehicle_stats)
====
